---- MODULE Spec2Model ----
(***************************************************************************)
(* A model of parse() of cli-flags-parser (src/index.ts).                  *)
(*                                                                         *)
(* A token is a sequence of one-character strings, argv a sequence of      *)
(* tokens.  The caller's State is a counter: every callback that returns   *)
(* Ok returns the state it received plus one, so no two callbacks of a run *)
(* are handed the same state.  What a callback returns (Ok, Ok with        *)
(* handleRemainingAsRest absent, false or true, or Error with a payload)   *)
(* is an input of the engine and is drawn when the callback is invoked.    *)
(*                                                                         *)
(* index is 0-based as in the source; argv[index] of the source is         *)
(* argv[index + 1] here.                                                   *)
(***************************************************************************)
EXTENDS Integers, Sequences, FiniteSets, TLC

VARIABLES
    argv,        \* the input tokens (parse's first parameter)
    gen,         \* which flagRulesFromState the caller passed (options)
    index,       \* the cursor of the for loop, 0-based
    state,       \* let state
    rules,       \* let rules
    items,       \* the candidates of the flag token being resolved
    item,        \* position of the candidate loop in items (1-based)
    pc,          \* "scan": at the loop head, "items": in the candidate loop, "done"
    result,      \* the ParseResult returned (None until parse returns)
    log,         \* history: every callback invocation, in order
    genCalls,    \* history: the states flagRulesFromState was called with
    lastResult   \* history: the CallbackResult returned last, as returned

vars == <<argv, gen, index, state, rules, items, item, pc, result, log, genCalls,
          lastResult>>

----------------------------------------------------------------------------
(* Bounds of the model. *)

\* Longest argv built from Tokens.
MaxLen == 3

\* Longest argv of the runs that are followed to their end.
MaxLenLive == 2

\* Longest single token drawn from every string over Alphabet.
MaxTokLen == 4

----------------------------------------------------------------------------
(* Strings. *)

Alphabet == {"-", "=", "a", "c"}

RECURSIVE StringsOfLen(_)
StringsOfLen(n) ==
    IF n = 0 THEN {<<>>}
    ELSE {Append(s, ch) : s \in StringsOfLen(n - 1), ch \in Alphabet}

\* Every string over Alphabet of at most n characters.
StringsUpTo(n) == UNION {StringsOfLen(k) : k \in 0..n}

\* An optional value: string | undefined.
Undefined == <<>>
Some(v) == <<v>>

\* (Mutant of Min: the loop keeps the last matching rule.)
Max(S) == CHOOSE x \in S : \A y \in S : x >= y

Min(S) == CHOOSE x \in S : \A y \in S : x <= y

\* argv.slice(from), from 0-based.
Slice(seq, from) == SubSeq(seq, from + 1, Len(seq))

----------------------------------------------------------------------------
(* const optionRegex: one or two dashes (group 1), a name whose first       *)
(* character is neither "-" nor "=" and whose other characters are not "="  *)
(* (group 2), then optionally "=" and any text (group 3), to the end.       *)

\* (Mutant of RegexTail: the name may start with a dash.)
RegexTailDashFirst(rest) ==
    IF rest = <<>> \/ rest[1] = "=" THEN <<>>
    ELSE LET eqs == {i \in 1..Len(rest) : rest[i] = "="}
             k == IF eqs = {} THEN 0 ELSE Min(eqs)
         IN IF k = 0
            THEN <<rest, Undefined>>
            ELSE <<SubSeq(rest, 1, k - 1), Some(SubSeq(rest, k + 1, Len(rest)))>>

\* Groups 2 and 3 on the text after the dashes: <<>> when it does not match,
\* else <<match[2], match[3]>>.  The name is greedy and must be followed by
\* "=" or the end, so it ends at the first "=".
RegexTail(rest) ==
    IF rest = <<>> \/ rest[1] \in {"-", "="} THEN <<>>
    ELSE LET eqs == {i \in 1..Len(rest) : rest[i] = "="}
             k == IF eqs = {} THEN 0 ELSE Min(eqs)
         IN IF k = 0
            THEN <<rest, Undefined>>
            ELSE <<SubSeq(rest, 1, k - 1), Some(SubSeq(rest, k + 1, Len(rest)))>>

\* optionRegex.exec(arg) with RegexTail as the name and value part: <<>> for null, else <<match[1], match[2], match[3]>>.
\* Group 1 is greedy: two dashes are tried first, then one.
optionRegex(arg) ==
    LET two == IF Len(arg) >= 2 /\ arg[1] = "-" /\ arg[2] = "-"
               THEN RegexTail(Slice(arg, 2)) ELSE <<>>
        one == IF Len(arg) >= 1 /\ arg[1] = "-"
               THEN RegexTail(Slice(arg, 1)) ELSE <<>>
    IN IF two # <<>> THEN <<<<"-", "-">>>> \o two
       ELSE IF one # <<>> THEN <<<<"-">>>> \o one
       ELSE <<>>

\* The token "--".
DashDash == <<"-", "-">>

----------------------------------------------------------------------------
(* The caller's side: rules, rule-set generators, callback results.        *)
(* A rule is the source's tuple: <<dash, name, callback>> (a switch) or    *)
(* <<dash, name, valueDescription, callback>> (a value flag).  A callback  *)
(* is named by a string.  The rule sets below are values of                *)
(* Array<FlagRule> that a caller may return from flagRulesFromState; they  *)
(* are inputs of parse, chosen so that every kind of rule and every way a  *)
(* rule set can change occurs.                                             *)

\* Switches -a and -b, value flags -c and --abc, followed by two rules that
\* repeat the spellings -a and --abc with the other arity.
RulesLoose ==
    << <<"-", <<"a">>, "cbA">>,
       <<"-", <<"b">>, "cbB">>,
       <<"-", <<"c">>, "a number", "cbC">>,
       <<"--", <<"a", "b", "c">>, "a number", "cbABC">>,
       <<"-", <<"a">>, "a letter", "cbA2">>,
       <<"--", <<"a", "b", "c">>, "cbABC2">> >>

\* A switch -a and value flags -b, -c and --abc.
RulesStrict ==
    << <<"-", <<"a">>, "cbA">>,
       <<"-", <<"b">>, "a number", "cbB">>,
       <<"-", <<"c">>, "a number", "cbC">>,
       <<"--", <<"a", "b", "c">>, "a number", "cbABC">> >>

\* Rules that depend on the state:
\* in the initial state -b is unknown and -c takes a value; afterwards -b is a
\* switch, -c is a switch and --abc is unknown.
RulesModalFirst ==
    << <<"-", <<"a">>, "cbA">>,
       <<"-", <<"c">>, "a number", "cbC">>,
       <<"--", <<"a", "b", "c">>, "a number", "cbABC">> >>

RulesModalLater ==
    << <<"-", <<"a">>, "cbA">>,
       <<"-", <<"b">>, "cbB">>,
       <<"-", <<"c">>, "cbC2">> >>

\* Two rules with the same callback, one for --help and one for -h.
RulesHelp ==
    << <<"--", <<"h", "e", "l", "p">>, "cbHelp">>,
       <<"-", <<"h">>, "cbHelp">> >>

Generators == {"loose", "strict", "modal"}

\* options.initialState
initialState == 0

\* options.flagRulesFromState(s) of the caller named g.
flagRulesFromState(g, s) ==
    CASE g = "loose" -> RulesLoose
      [] g = "strict" -> RulesStrict
      [] g = "modal" -> IF s = initialState THEN RulesModalFirst ELSE RulesModalLater
      [] g = "help" -> RulesHelp

\* Payloads a callback may return in Error.
Errors == {"bad", "worse"}

\* What a callback handed the state s may return: a CallbackResult.  Ok
\* carries the replacement state s + 1; handleRemainingAsRest is absent
\* ("undefined"), false or true.
CallbackResults(s) ==
    {[tag |-> "Ok", state |-> s + 1, handleRemainingAsRest |-> h] :
        h \in {"undefined", "false", "true"}}
    \cup {[tag |-> "Error", error |-> e] : e \in Errors}

----------------------------------------------------------------------------
(* The inputs. *)

Tokens ==
    { DashDash,
      <<"v">>,
      <<"-", "a">>,
      <<"-", "b">>,
      <<"-", "c">>,
      <<"-", "a", "c">>,
      <<"-", "c", "a">>,
      <<"-", "a", "c", "=", "v">>,
      <<"-", "-", "a", "b", "c", "=", "v">> }

RECURSIVE SeqsOfLen(_, _)
SeqsOfLen(S, n) ==
    IF n = 0 THEN {<<>>}
    ELSE {Append(s, x) : s \in SeqsOfLen(S, n - 1), x \in S}

\* The inputs of the tests and of the examples of the specification.
Examples ==
    { << <<"-","-","a","b","c","=","1","0">>, <<"-","a","b","c","=","2","0">> >>,
      << <<"-","a","b","c">>, <<"v">> >>,
      << <<"-","a">>, <<"-","b">>, <<"-","c">>, <<"v">> >>,
      << <<"-","a">>, <<"b">>, DashDash, <<"-","a">>, <<"b">> >>,
      << <<"-","-","a","b","c">> >>,
      << <<"-","-","a","b","c">>, <<"v">> >>,
      << <<"-","-","a","b","c">>, DashDash, <<"-","a">> >>,
      << <<"-","a">>, <<"-","-","a","b","c">>, <<"-","a","=","v">> >>,
      << <<"-">> >>,
      << <<"-","-","-">> >>,
      << <<"-","-","=">> >>,
      << <<"-","=">> >>,
      << <<"-","h">> >>,
      << <<"-","-","h","e","l","p">> >>,
      << <<"-","d","=","x">> >>,
      << <<"-","-","f","o","o","=","a","=","b">> >> }

\* The inputs --help, -h, -help and --help --unknown, parsed with RulesHelp.
HelpExamples ==
    { << <<"-","-","h","e","l","p">> >>,
      << <<"-","h">> >>,
      << <<"-","h","e","l","p">> >>,
      << <<"-","-","h","e","l","p">>, <<"-","-","u","n","k","n","o","w","n">> >> }

Argvs ==
    UNION {SeqsOfLen(Tokens, n) : n \in 0..MaxLen}
    \cup {<<t>> : t \in StringsUpTo(MaxTokLen)}
    \cup Examples

----------------------------------------------------------------------------
(* parse: the pure parts. *)

None == [tag |-> "None"]

\* const arg = argv[index]
Arg == argv[index + 1]

\* (Mutant of flagDash: every flag token is taken as a single-dash group.)
flagDashAlwaysSingle(match) == "-"

\* const flagDash: Dash = match[1] === "-" ? "-" : "--"
flagDash(match) == IF match[1] = <<"-">> THEN "-" ELSE "--"

\* (Mutant of afterEquals: an empty attached value counts as no value.)
afterEqualsTruthy(match, av, idx) ==
    LET maybeAfterEquals == match[3]
    IN IF maybeAfterEquals = Undefined \/ maybeAfterEquals[1] = <<>>
       THEN IF idx < Len(av) - 1
            THEN [tag |-> "ViaNextArg", value |-> av[idx + 2]]
            ELSE [tag |-> "NextArgMissing"]
       ELSE [tag |-> "ViaEquals", value |-> maybeAfterEquals[1]]

\* (Mutant of afterEquals: a missing next argument counts as an empty value.)
afterEqualsDefaulted(match, av, idx) ==
    LET maybeAfterEquals == match[3]
    IN IF maybeAfterEquals = Undefined
       THEN IF idx < Len(av) - 1
            THEN [tag |-> "ViaNextArg", value |-> av[idx + 2]]
            ELSE [tag |-> "ViaEquals", value |-> <<>>]
       ELSE [tag |-> "ViaEquals", value |-> maybeAfterEquals[1]]

\* const afterEquals: FlagValue
afterEquals(match, av, idx) ==
    LET maybeAfterEquals == match[3]
    IN IF maybeAfterEquals = Undefined
       THEN IF idx < Len(av) - 1
            THEN [tag |-> "ViaNextArg", value |-> av[idx + 2]]
            ELSE [tag |-> "NextArgMissing"]
       ELSE [tag |-> "ViaEquals", value |-> maybeAfterEquals[1]]

\* (Mutant of Items: the group is walked from its last character.)
ItemsReversed(match, av, idx) ==
    LET beforeEquals == match[2]
        n == Len(beforeEquals)
    IN IF flagDash(match) = "-"
       THEN [charIndex \in 1..n |->
                <<<<beforeEquals[n + 1 - charIndex]>>,
                  IF charIndex = 1
                  THEN afterEquals(match, av, idx)
                  ELSE [tag |-> "NotLastInGroup"]>>]
       ELSE <<<<beforeEquals, afterEquals(match, av, idx)>>>>

\* (Mutant of Items: a single-dash name is not split into characters.)
ItemsUnsplit(match, av, idx) ==
    <<<<match[2], afterEquals(match, av, idx)>>>>

\* (Mutant of Items: every member of a group carries the token's value source.)
ItemsAllCarry(match, av, idx) ==
    LET beforeEquals == match[2]
    IN IF flagDash(match) = "-"
       THEN [charIndex \in 1..Len(beforeEquals) |->
                <<<<beforeEquals[charIndex]>>, afterEquals(match, av, idx)>>]
       ELSE <<<<beforeEquals, afterEquals(match, av, idx)>>>>

\* const items: Array<[name, flagValue]>
Items(match, av, idx) ==
    LET beforeEquals == match[2]
    IN IF flagDash(match) = "-"
       THEN [charIndex \in 1..Len(beforeEquals) |->
                <<<<beforeEquals[charIndex]>>,
                  IF charIndex = Len(beforeEquals)
                  THEN afterEquals(match, av, idx)
                  ELSE [tag |-> "NotLastInGroup"]>>]
       ELSE <<<<beforeEquals, afterEquals(match, av, idx)>>>>

\* (Mutant of Rest: the slice starts at the cursor.)
RestFromCursor(av, idx) == Slice(av, idx)

\* argv.slice(index + 1): the tokens strictly after the cursor.
Rest(av, idx) == Slice(av, idx + 1)

\* (Mutant of CursorAtCall: index++ for every value source.)
CursorAlwaysAdvanced(fv, idx) == idx + 1

\* (Mutant of CursorAtCall: index++ is missing.)
CursorNeverAdvanced(fv, idx) == idx

\* case "ViaNextArg": index++ (falls through); case "ViaEquals": the cursor
\* when the value callback is called.
CursorAtCall(fv, idx) == IF fv.tag = "ViaNextArg" THEN idx + 1 ELSE idx

\* The positions in rl of the rules with dash === flagDash && name === flagName.
Matching(rl, dash, flagName) ==
    {i \in 1..Len(rl) : rl[i][1] = dash /\ rl[i][2] = flagName}

\* for (const rule of rules) ... break: the position of the rule the loop
\* stops at, 0 when foundMatch stays false.
FoundMatch(rl, dash, flagName) ==
    IF Matching(rl, dash, flagName) = {} THEN 0 ELSE Min(Matching(rl, dash, flagName))

----------------------------------------------------------------------------
(* parse: the state machine. *)

\* let state = options.initialState; let rules = options.flagRulesFromState(state)
Init ==
    /\ \/ argv \in Argvs /\ gen \in Generators
       \/ argv \in HelpExamples /\ gen = "help"
    /\ index = 0
    /\ state = initialState
    /\ rules = flagRulesFromState(gen, initialState)
    /\ items = <<>>
    /\ item = 0
    /\ pc = "scan"
    /\ result = None
    /\ log = <<>>
    /\ genCalls = <<initialState>>
    /\ lastResult = None

\* What the history keeps of a CallbackResult: the tag, the state or the
\* error, and whether handleRemainingAsRest was true (lastResult keeps the
\* result as returned).
Seen(r) ==
    IF r.tag = "Ok"
    THEN [tag |-> "Ok", state |-> r.state, rest |-> (r.handleRemainingAsRest = "true")]
    ELSE r

\* A history entry: callback cb was called with (a, st) while the token at
\* position tok was being processed and the cursor was at `at`, for the
\* matched rule `rule` (<<>> for onArg and onRest), and returned r.
Call(cb, a, st, tok, at, rule, r) ==
    [cb |-> cb, arg |-> a, state |-> st, tok |-> tok, at |-> at,
     rule |-> rule, res |-> Seen(r)]

\* return <ParseResult>
Return(res) ==
    /\ result' = res
    /\ pc' = "done"

\* (Mutant of handleRemainingAsRest: Ok carries the state onRest was given.)
handleRemainingAsRestKeepsState(idx, st, lg) ==
    \E r \in CallbackResults(st) :
        /\ log' = Append(lg, Call("onRest", Rest(argv, idx), st, index, idx, <<>>, r))
        /\ lastResult' = r
        /\ Return(IF r.tag = "Ok" THEN [tag |-> "Ok", state |-> st]
                  ELSE [tag |-> "ArgError", error |-> r.error])

\* (Mutant of handleRemainingAsRest: an Error of onRest is swallowed.)
handleRemainingAsRestErrorOk(idx, st, lg) ==
    \E r \in CallbackResults(st) :
        /\ log' = Append(lg, Call("onRest", Rest(argv, idx), st, index, idx, <<>>, r))
        /\ lastResult' = r
        /\ Return(IF r.tag = "Ok" THEN [tag |-> "Ok", state |-> r.state]
                  ELSE [tag |-> "Ok", state |-> st])

\* const handleRemainingAsRest = () => ..., called with the cursor at idx, the
\* state st and the history lg.
handleRemainingAsRest(idx, st, lg) ==
    \E r \in CallbackResults(st) :
        /\ log' = Append(lg, Call("onRest", Rest(argv, idx), st, index, idx, <<>>, r))
        /\ lastResult' = r
        /\ Return(IF r.tag = "Ok"
                  THEN [tag |-> "Ok", state |-> r.state]
                  ELSE [tag |-> "ArgError", error |-> r.error])

\* (Mutant of NextCandidate: the cursor is not advanced after the last
\* candidate.)
NextCandidateStays(idx) ==
    IF item < Len(items)
    THEN /\ item' = item + 1
         /\ index' = idx
         /\ UNCHANGED <<items, pc, result>>
    ELSE /\ item' = 0
         /\ items' = <<>>
         /\ index' = idx
         /\ pc' = "scan"
         /\ UNCHANGED result

\* (Mutant of NextCandidate: after the last candidate the cursor moves two
\* tokens on.)
NextCandidateSkipsToken(idx) ==
    IF item < Len(items)
    THEN /\ item' = item + 1
         /\ index' = idx
         /\ UNCHANGED <<items, pc, result>>
    ELSE /\ item' = 0
         /\ items' = <<>>
         /\ index' = idx + 2
         /\ pc' = "scan"
         /\ UNCHANGED result

\* (Mutant of NextCandidate: the loop stops one candidate early.)
NextCandidateSkipsLast(idx) ==
    IF item + 1 < Len(items)
    THEN /\ item' = item + 1
         /\ index' = idx
         /\ UNCHANGED <<items, pc, result>>
    ELSE /\ item' = 0
         /\ items' = <<>>
         /\ index' = idx + 1
         /\ pc' = "scan"
         /\ UNCHANGED result

\* The end of one pass of the candidate loop: the next candidate, or the
\* for loop's index++ after the last.
NextCandidate(idx) ==
    IF item < Len(items)
    THEN /\ item' = item + 1
         /\ index' = idx
         /\ UNCHANGED <<items, pc, result>>
    ELSE /\ item' = 0
         /\ items' = <<>>
         /\ index' = idx + 1
         /\ pc' = "scan"
         /\ UNCHANGED result

\* (Mutant of handleFlagCallbackResult: the rule set is not recomputed after
\* a flag callback.)
handleFlagCallbackResultNoRecompute(dash, name, valueDescription, r, idx, lg) ==
    IF r.tag = "Ok"
    THEN /\ state' = r.state
         /\ UNCHANGED <<rules, genCalls>>
         /\ IF r.handleRemainingAsRest = "true"
            THEN /\ handleRemainingAsRest(idx, r.state, lg)
                 /\ index' = idx
                 /\ UNCHANGED <<items, item>>
            ELSE /\ log' = lg
                 /\ lastResult' = r
                 /\ NextCandidate(idx)
    ELSE /\ Return([tag |-> "FlagError",
                    error |-> [tag |-> "Custom", dash |-> dash, name |-> name,
                               valueDescription |-> valueDescription,
                               error |-> r.error]])
         /\ log' = lg
         /\ lastResult' = r
         /\ index' = idx
         /\ UNCHANGED <<state, rules, genCalls, items, item>>

\* (Mutant of handleFlagCallbackResult: a handoff is honoured only from the
\* last candidate of a token.)
handleFlagCallbackResultLastOnly(dash, name, valueDescription, r, idx, lg) ==
    IF r.tag = "Ok"
    THEN /\ state' = r.state
         /\ rules' = flagRulesFromState(gen, r.state)
         /\ genCalls' = Append(genCalls, r.state)
         /\ IF r.handleRemainingAsRest = "true" /\ item = Len(items)
            THEN /\ handleRemainingAsRest(idx, r.state, lg)
                 /\ index' = idx
                 /\ UNCHANGED <<items, item>>
            ELSE /\ log' = lg
                 /\ lastResult' = r
                 /\ NextCandidate(idx)
    ELSE /\ Return([tag |-> "FlagError",
                    error |-> [tag |-> "Custom", dash |-> dash, name |-> name,
                               valueDescription |-> valueDescription,
                               error |-> r.error]])
         /\ log' = lg
         /\ lastResult' = r
         /\ index' = idx
         /\ UNCHANGED <<state, rules, genCalls, items, item>>

\* (Mutant of handleFlagCallbackResult: an Error is returned as
\* handleCallbackResult returns it, as an ArgError.)
handleFlagCallbackResultAsArgError(dash, name, valueDescription, r, idx, lg) ==
    IF r.tag = "Ok"
    THEN /\ state' = r.state
         /\ rules' = flagRulesFromState(gen, r.state)
         /\ genCalls' = Append(genCalls, r.state)
         /\ IF r.handleRemainingAsRest = "true"
            THEN /\ handleRemainingAsRest(idx, r.state, lg)
                 /\ index' = idx
                 /\ UNCHANGED <<items, item>>
            ELSE /\ log' = lg
                 /\ lastResult' = r
                 /\ NextCandidate(idx)
    ELSE /\ Return([tag |-> "ArgError", error |-> r.error])
         /\ log' = lg
         /\ lastResult' = r
         /\ index' = idx
         /\ UNCHANGED <<state, rules, genCalls, items, item>>

\* (Mutant of handleFlagCallbackResult: any handleRemainingAsRest that is
\* present hands off, false included.)
handleFlagCallbackResultDefined(dash, name, valueDescription, r, idx, lg) ==
    IF r.tag = "Ok"
    THEN /\ state' = r.state
         /\ rules' = flagRulesFromState(gen, r.state)
         /\ genCalls' = Append(genCalls, r.state)
         /\ IF r.handleRemainingAsRest # "undefined"
            THEN /\ handleRemainingAsRest(idx, r.state, lg)
                 /\ index' = idx
                 /\ UNCHANGED <<items, item>>
            ELSE /\ log' = lg
                 /\ lastResult' = r
                 /\ NextCandidate(idx)
    ELSE /\ Return([tag |-> "FlagError",
                    error |-> [tag |-> "Custom", dash |-> dash, name |-> name,
                               valueDescription |-> valueDescription,
                               error |-> r.error]])
         /\ log' = lg
         /\ lastResult' = r
         /\ index' = idx
         /\ UNCHANGED <<state, rules, genCalls, items, item>>

\* const handleFlagCallbackResult = (dash, name, valueDescription, result) => ...
\* and what parse does with its return value; lg is the history that holds
\* the callback's invocation.
handleFlagCallbackResult(dash, name, valueDescription, r, idx, lg) ==
    IF r.tag = "Ok"
    THEN /\ state' = r.state
         /\ rules' = flagRulesFromState(gen, r.state)
         /\ genCalls' = Append(genCalls, r.state)
         /\ IF r.handleRemainingAsRest = "true"
            THEN /\ handleRemainingAsRest(idx, r.state, lg)
                 /\ index' = idx
                 /\ UNCHANGED <<items, item>>
            ELSE /\ log' = lg
                 /\ lastResult' = r
                 /\ NextCandidate(idx)
    ELSE /\ Return([tag |-> "FlagError",
                    error |-> [tag |-> "Custom", dash |-> dash, name |-> name,
                               valueDescription |-> valueDescription,
                               error |-> r.error]])
         /\ log' = lg
         /\ lastResult' = r
         /\ index' = idx
         /\ UNCHANGED <<state, rules, genCalls, items, item>>

\* (Mutant of handleCallbackResult: the rule set is recomputed before the
\* state is replaced.)
handleCallbackResultStaleRules(r, lg) ==
    IF r.tag = "Ok"
    THEN /\ state' = r.state
         /\ rules' = flagRulesFromState(gen, state)
         /\ genCalls' = Append(genCalls, state)
         /\ IF r.handleRemainingAsRest = "true"
            THEN /\ handleRemainingAsRest(index, r.state, lg)
                 /\ UNCHANGED index
            ELSE /\ log' = lg
                 /\ lastResult' = r
                 /\ index' = index + 1
                 /\ UNCHANGED <<pc, result>>
    ELSE /\ Return([tag |-> "ArgError", error |-> r.error])
         /\ log' = lg
         /\ lastResult' = r
         /\ UNCHANGED <<state, rules, genCalls, index>>

\* (Mutant of handleCallbackResult: the ArgError is kept but the scan goes on.)
handleCallbackResultErrorContinues(r, lg) ==
    IF r.tag = "Ok"
    THEN /\ state' = r.state
         /\ rules' = flagRulesFromState(gen, r.state)
         /\ genCalls' = Append(genCalls, r.state)
         /\ IF r.handleRemainingAsRest = "true"
            THEN /\ handleRemainingAsRest(index, r.state, lg)
                 /\ UNCHANGED index
            ELSE /\ log' = lg
                 /\ lastResult' = r
                 /\ index' = index + 1
                 /\ UNCHANGED <<pc, result>>
    ELSE /\ result' = [tag |-> "ArgError", error |-> r.error]
         /\ log' = lg
         /\ lastResult' = r
         /\ index' = index + 1
         /\ UNCHANGED <<state, rules, genCalls, pc>>

\* (Mutant of handleCallbackResult: the rule set is not recomputed after
\* onArg.)
handleCallbackResultNoRecompute(r, lg) ==
    IF r.tag = "Ok"
    THEN /\ state' = r.state
         /\ UNCHANGED <<rules, genCalls>>
         /\ IF r.handleRemainingAsRest = "true"
            THEN /\ handleRemainingAsRest(index, r.state, lg)
                 /\ UNCHANGED index
            ELSE /\ log' = lg
                 /\ lastResult' = r
                 /\ index' = index + 1
                 /\ UNCHANGED <<pc, result>>
    ELSE /\ Return([tag |-> "ArgError", error |-> r.error])
         /\ log' = lg
         /\ lastResult' = r
         /\ UNCHANGED <<state, rules, genCalls, index>>

\* (Mutant of handleCallbackResult: the handoff passes the state from before
\* the callback.)
handleCallbackResultStaleState(r, lg) ==
    IF r.tag = "Ok"
    THEN /\ state' = r.state
         /\ rules' = flagRulesFromState(gen, r.state)
         /\ genCalls' = Append(genCalls, r.state)
         /\ IF r.handleRemainingAsRest = "true"
            THEN /\ handleRemainingAsRest(index, state, lg)
                 /\ UNCHANGED index
            ELSE /\ log' = lg
                 /\ lastResult' = r
                 /\ index' = index + 1
                 /\ UNCHANGED <<pc, result>>
    ELSE /\ Return([tag |-> "ArgError", error |-> r.error])
         /\ log' = lg
         /\ lastResult' = r
         /\ UNCHANGED <<state, rules, genCalls, index>>

\* const handleCallbackResult = (result) => ... and what parse does with its
\* return value.
handleCallbackResult(r, lg) ==
    IF r.tag = "Ok"
    THEN /\ state' = r.state
         /\ rules' = flagRulesFromState(gen, r.state)
         /\ genCalls' = Append(genCalls, r.state)
         /\ IF r.handleRemainingAsRest = "true"
            THEN /\ handleRemainingAsRest(index, r.state, lg)
                 /\ UNCHANGED index
            ELSE /\ log' = lg
                 /\ lastResult' = r
                 /\ index' = index + 1
                 /\ UNCHANGED <<pc, result>>
    ELSE /\ Return([tag |-> "ArgError", error |-> r.error])
         /\ log' = lg
         /\ lastResult' = r
         /\ UNCHANGED <<state, rules, genCalls, index>>

\* (Mutant of LoopExit: the loop runs once more, past the last token.)
LoopExitOffByOne ==
    /\ pc = "scan"
    /\ ~(index < Len(argv))
    /\ \E r \in CallbackResults(state) :
          /\ log' = Append(log, Call("onArg", Undefined, state, index, index, <<>>, r))
          /\ lastResult' = r
          /\ Return(IF r.tag = "Ok" THEN [tag |-> "Ok", state |-> r.state]
                    ELSE [tag |-> "ArgError", error |-> r.error])
    /\ UNCHANGED <<argv, gen, index, state, rules, items, item, genCalls>>

\* (Mutant of LoopExit: the end of the input is handed to onRest.)
LoopExitCallsRest ==
    /\ pc = "scan"
    /\ ~(index < Len(argv))
    /\ handleRemainingAsRest(index, state, log)
    /\ UNCHANGED <<argv, gen, index, state, rules, items, item, genCalls>>

\* index < argv.length fails: return { tag: "Ok", state }
LoopExit ==
    /\ pc = "scan"
    /\ ~(index < Len(argv))
    /\ Return([tag |-> "Ok", state |-> state])
    /\ UNCHANGED <<argv, gen, index, state, rules, items, item, log, genCalls,
                   lastResult>>

\* if (arg === "--") return handleRemainingAsRest()
Terminator ==
    /\ pc = "scan"
    /\ index < Len(argv)
    /\ Arg = DashDash
    /\ handleRemainingAsRest(index, state, log)
    /\ UNCHANGED <<argv, gen, index, state, rules, items, item, genCalls>>

\* match === null: handleCallbackResult(options.onArg(arg, state))
Positional ==
    /\ pc = "scan"
    /\ index < Len(argv)
    /\ Arg # DashDash
    /\ optionRegex(Arg) = <<>>
    /\ \E r \in CallbackResults(state) :
          handleCallbackResult(r, Append(log, Call("onArg", Arg, state, index, index, <<>>, r)))
    /\ UNCHANGED <<argv, gen, items, item>>

\* match !== null: flagDash, beforeEquals, afterEquals and items are computed
\* and the candidate loop is entered.
FlagToken ==
    /\ pc = "scan"
    /\ index < Len(argv)
    /\ Arg # DashDash
    /\ optionRegex(Arg) # <<>>
    /\ items' = Items(optionRegex(Arg), argv, index)
    /\ item' = 1
    /\ pc' = "items"
    /\ UNCHANGED <<argv, gen, index, state, rules, result, log, genCalls, lastResult>>

\* Inside the candidate loop the cursor still points at the flag token (the
\* only index++ of the loop body is followed by the end of the loop), so the
\* loop's constants are those of argv[index].
CurDash == flagDash(optionRegex(Arg))
flagName == items[item][1]
flagValue == items[item][2]
RuleAt == FoundMatch(rules, CurDash, flagName)
Rule == rules[RuleAt]

InCandidateLoop ==
    /\ pc = "items"
    /\ item \in 1..Len(items)

\* (Mutant of UnknownFlag: a candidate without a rule is passed over.)
UnknownFlagSkipped ==
    /\ InCandidateLoop
    /\ RuleAt = 0
    /\ NextCandidate(index)
    /\ UNCHANGED <<argv, gen, state, rules, log, genCalls, lastResult>>

\* if (!foundMatch) return FlagError UnknownFlag
UnknownFlag ==
    /\ InCandidateLoop
    /\ RuleAt = 0
    /\ Return([tag |-> "FlagError",
               error |-> [tag |-> "UnknownFlag", dash |-> "--", name |-> flagName]])
    /\ UNCHANGED <<argv, gen, index, state, rules, items, item, log, genCalls,
                   lastResult>>

\* rule.length === 3, case "ViaEquals": return FlagError UnexpectedFlagValue
SwitchWithValue ==
    /\ InCandidateLoop
    /\ RuleAt # 0
    /\ Len(Rule) = 3
    /\ flagValue.tag = "ViaEquals"
    /\ Return([tag |-> "FlagError",
               error |-> [tag |-> "UnexpectedFlagValue", dash |-> Rule[1],
                          name |-> Rule[2], value |-> flagValue.value]])
    /\ UNCHANGED <<argv, gen, index, state, rules, items, item, log, genCalls,
                   lastResult>>

\* (Mutant of Switch: the lookahead is committed for a switch too.)
SwitchConsuming ==
    /\ InCandidateLoop
    /\ RuleAt # 0
    /\ Len(Rule) = 3
    /\ flagValue.tag \in {"ViaNextArg", "NextArgMissing", "NotLastInGroup"}
    /\ LET idx == IF flagValue.tag = "ViaNextArg" THEN index + 1 ELSE index
       IN \E r \in CallbackResults(state) :
             handleFlagCallbackResult(Rule[1], Rule[2], Undefined, r, idx,
                 Append(log, Call(Rule[3], Undefined, state, index, idx, Rule, r)))
    /\ UNCHANGED <<argv, gen>>

\* rule.length === 3, the other cases: callback(state)
Switch ==
    /\ InCandidateLoop
    /\ RuleAt # 0
    /\ Len(Rule) = 3
    /\ flagValue.tag \in {"ViaNextArg", "NextArgMissing", "NotLastInGroup"}
    /\ \E r \in CallbackResults(state) :
          handleFlagCallbackResult(Rule[1], Rule[2], Undefined, r, index,
              Append(log, Call(Rule[3], Undefined, state, index, index, Rule, r)))
    /\ UNCHANGED <<argv, gen>>

\* (Mutant of Value: index++ comes after the callback's result is handled,
\* so a handoff still sees the cursor on the flag token.)
ValueLateIncrement ==
    /\ InCandidateLoop
    /\ RuleAt # 0
    /\ Len(Rule) = 4
    /\ flagValue.tag \in {"ViaNextArg", "ViaEquals"}
    /\ LET idx == CursorAtCall(flagValue, index)
       IN \E r \in CallbackResults(state) :
             handleFlagCallbackResult(Rule[1], Rule[2], Some(Rule[3]), r,
                 IF r.tag = "Ok" /\ r.handleRemainingAsRest = "true"
                 THEN index ELSE idx,
                 Append(log, Call(Rule[4], Some(flagValue.value), state, index, idx, Rule, r)))
    /\ UNCHANGED <<argv, gen>>

\* rule.length === 4, case "ViaNextArg" (index++, then falls through) and case
\* "ViaEquals": callback(flagValue.value, state)
Value ==
    /\ InCandidateLoop
    /\ RuleAt # 0
    /\ Len(Rule) = 4
    /\ flagValue.tag \in {"ViaNextArg", "ViaEquals"}
    /\ LET idx == CursorAtCall(flagValue, index)
       IN \E r \in CallbackResults(state) :
             handleFlagCallbackResult(Rule[1], Rule[2], Some(Rule[3]), r, idx,
                 Append(log, Call(Rule[4], Some(flagValue.value), state, index, idx, Rule, r)))
    /\ UNCHANGED <<argv, gen>>

\* (Mutant of ValueNotLastInGroup: the case is missing, the callback is called
\* without a value.)
ValueNotLastInGroupCalled ==
    /\ InCandidateLoop
    /\ RuleAt # 0
    /\ Len(Rule) = 4
    /\ flagValue.tag = "NotLastInGroup"
    /\ \E r \in CallbackResults(state) :
          handleFlagCallbackResult(Rule[1], Rule[2], Some(Rule[3]), r, index,
              Append(log, Call(Rule[4], Undefined, state, index, index, Rule, r)))
    /\ UNCHANGED <<argv, gen>>

\* rule.length === 4, case "NotLastInGroup": return FlagError ValueFlagNotLastInGroup
ValueNotLastInGroup ==
    /\ InCandidateLoop
    /\ RuleAt # 0
    /\ Len(Rule) = 4
    /\ flagValue.tag = "NotLastInGroup"
    /\ Return([tag |-> "FlagError",
               error |-> [tag |-> "ValueFlagNotLastInGroup", dash |-> "-",
                          name |-> Rule[2], valueDescription |-> Rule[3]]])
    /\ UNCHANGED <<argv, gen, index, state, rules, items, item, log, genCalls,
                   lastResult>>

\* rule.length === 4, case "NextArgMissing": return FlagError MissingFlagValue
ValueMissing ==
    /\ InCandidateLoop
    /\ RuleAt # 0
    /\ Len(Rule) = 4
    /\ flagValue.tag = "NextArgMissing"
    /\ Return([tag |-> "FlagError",
               error |-> [tag |-> "MissingFlagValue", dash |-> Rule[1],
                          name |-> Rule[2], valueDescription |-> Rule[3]]])
    /\ UNCHANGED <<argv, gen, index, state, rules, items, item, log, genCalls,
                   lastResult>>

Next ==
    \/ LoopExit
    \/ Terminator
    \/ Positional
    \/ FlagToken
    \/ UnknownFlag
    \/ SwitchWithValue
    \/ Switch
    \/ Value
    \/ ValueNotLastInGroup
    \/ ValueMissing

Spec == Init /\ [][Next]_vars

----------------------------------------------------------------------------
(* parse runs to its end: the callbacks return and the loop is the only    *)
(* thread of control, so a step that can be taken is taken.                *)
LiveTokens ==
    { DashDash, <<"v">>, <<"-","b">>, <<"-","c">>, <<"-","c","a">>,
      <<"-","a","c","=","v">> }

InitLive ==
    /\ Init
    /\ Len(argv) <= MaxLenLive
    /\ \A i \in 1..Len(argv) : argv[i] \in LiveTokens

SpecLive == InitLive /\ [][Next]_vars /\ WF_vars(Next)

----------------------------------------------------------------------------
(* Vocabulary of the properties, stated on the input text and the history, *)
(* independently of the operators above.                                   *)

\* The last history entry.
LastCall == log[Len(log)]
LastCallNext == log'[Len(log')]

\* This step invoked exactly one callback, and it is the history's new last entry.
OneCall ==
    /\ Len(log') = Len(log) + 1
    /\ SubSeq(log', 1, Len(log)) = log

\* This step invoked exactly two callbacks.
TwoCalls ==
    /\ Len(log') = Len(log) + 2
    /\ SubSeq(log', 1, Len(log)) = log

\* The scan is about to classify the token at the cursor.
AtToken == pc = "scan" /\ index < Len(argv)

\* The token at the cursor and the tokens strictly after it.
Tok == argv[index + 1]
After(i) == [k \in 1..(Len(argv) - i - 1) |-> argv[i + 1 + k]]

\* The ParseResult that an onRest result translates to.
Translated(r) ==
    IF r.tag = "Ok" THEN [tag |-> "Ok", state |-> r.state]
    ELSE [tag |-> "ArgError", error |-> r.error]

\* Every token before position i has been handled: a callback was invoked
\* for it, or it was consumed as a flag's value.
HandledBefore(i) ==
    \A p \in 0..(i - 1) : \E k \in 1..Len(log) : log[k].tok = p \/ log[k].at = p

\* The shape of a flag token, in the words of the specification: d dashes, a
\* name of n characters whose first is neither "-" nor "=" and whose others
\* are not "=", then the end or "=" and any suffix.
FlagShape(t, d, n) ==
    /\ d \in {1, 2}
    /\ n >= 1
    /\ Len(t) >= d + n
    /\ \A i \in 1..d : t[i] = "-"
    /\ t[d + 1] \notin {"-", "="}
    /\ \A i \in (d + 2)..(d + n) : t[i] # "="
    /\ Len(t) = d + n \/ t[d + n + 1] = "="

IsFlagToken(t) == \E d \in {1, 2} : \E n \in 1..Len(t) : FlagShape(t, d, n)

\* Of a flag token: its dash mode, its name, whether a value is attached
\* and that value.
TokDashes(t) == CHOOSE d \in {1, 2} : \E n \in 1..Len(t) : FlagShape(t, d, n)
TokDash(t) == IF TokDashes(t) = 1 THEN "-" ELSE "--"
TokNameLen(t) == CHOOSE n \in 1..Len(t) : FlagShape(t, TokDashes(t), n)
TokName(t) == [i \in 1..TokNameLen(t) |-> t[TokDashes(t) + i]]
HasSuffix(t) == Len(t) > TokDashes(t) + TokNameLen(t)
TokSuffix(t) ==
    [i \in 1..(Len(t) - TokDashes(t) - TokNameLen(t) - 1) |->
        t[TokDashes(t) + TokNameLen(t) + 1 + i]]

\* Of the flag token at the cursor: the number of candidates and the name of
\* candidate k.
NCands(t) == IF TokDash(t) = "-" THEN TokNameLen(t) ELSE 1
CandName(t, k) == IF TokDash(t) = "-" THEN <<TokName(t)[k]>> ELSE TokName(t)

\* The candidate loop is about to resolve candidate `item` of the token at the
\* cursor.
AtCandidate == pc = "items" /\ item \in 1..Len(items)
IsLastCand == item = NCands(Tok)

\* The first rule of the active rule set that has the candidate's spelling,
\* <<>> if none has.
Spelled(rl, d, n) == {i \in 1..Len(rl) : rl[i][1] = d /\ rl[i][2] = n}
Resolved ==
    LET m == Spelled(rules, TokDash(Tok), CandName(Tok, item))
    IN IF m = {} THEN <<>> ELSE rules[CHOOSE i \in m : \A j \in m : i <= j]
ToSwitch == Len(Resolved) = 3
ToValue == Len(Resolved) = 4

\* No callback is invoked once parse has returned.
Final == pc = "done" => UNCHANGED vars

----------------------------------------------------------------------------
(* C1. Terminator transparency: when the scan reaches a token that is      *)
(* exactly "--" in classification position, that step invokes onRest (and  *)
(* nothing else) with exactly the tokens strictly after it, in order and   *)
(* unmodified, and with the current state; every token before it has been  *)
(* handled; parse returns the translation of onRest's result, and nothing  *)
(* is invoked afterwards.                                                  *)
C1_TerminatorTransparency ==
    [][/\ (AtToken /\ Tok = <<"-", "-">>) =>
            /\ OneCall
            /\ LastCallNext.cb = "onRest"
            /\ LastCallNext.arg = After(index)
            /\ LastCallNext.state = state
            /\ LastCallNext.res = Seen(lastResult')
            /\ HandledBefore(index)
            /\ pc' = "done"
            /\ result' = Translated(lastResult')
       /\ Final]_vars

\* parse has returned from a terminator that had tokens before it and tokens
\* that look like flags after it.
C1_Witness ==
    /\ pc = "done"
    /\ Len(log) >= 3
    /\ LastCall.cb = "onRest"
    /\ LastCall.tok = LastCall.at
    /\ argv[LastCall.at + 1] = <<"-", "-">>
    /\ LastCall.arg = << <<"-", "a">>, <<"b">> >>
    /\ result.tag = "Ok"

----------------------------------------------------------------------------
(* C2. Classifier: a token is the terminator iff it is "--" (the step      *)
(* invokes onRest); otherwise it is a flag token iff it has the flag shape *)
(* (the step enters the candidate loop and invokes nothing); every other   *)
(* token is positional: the step invokes onArg with the token verbatim and *)
(* does not end in a FlagError.  "-", "---", "--=", "-=" are positional;   *)
(* "-h", "--help", "-d=x", "--foo=a=b" are flag tokens.                    *)
PositionalStep ==
    /\ Len(log') >= Len(log) + 1
    /\ SubSeq(log', 1, Len(log)) = log
    /\ log'[Len(log) + 1].cb = "onArg"
    /\ log'[Len(log) + 1].arg = Tok
    /\ result'.tag # "FlagError"
    /\ pc' # "items"

FlagTokenStep ==
    /\ pc' = "items"
    /\ log' = log
    /\ result' = None

C2_Classifier ==
    [][AtToken =>
        /\ Tok = <<"-", "-">> => (OneCall /\ LastCallNext.cb = "onRest")
        /\ (Tok # <<"-", "-">> /\ IsFlagToken(Tok)) => FlagTokenStep
        /\ (Tok # <<"-", "-">> /\ ~IsFlagToken(Tok)) => PositionalStep
        /\ Tok \in {<<"-">>, <<"-", "-", "-">>, <<"-", "-", "=">>, <<"-", "=">>}
              => PositionalStep
        /\ Tok \in {<<"-", "h">>, <<"-", "-", "h", "e", "l", "p">>,
                    <<"-", "d", "=", "x">>,
                    <<"-", "-", "f", "o", "o", "=", "a", "=", "b">>}
              => FlagTokenStep]_vars

\* "---" was passed to onArg, and parse went on to return Ok.
C2_Witness ==
    /\ argv = << <<"-", "-", "-">> >>
    /\ Len(log) = 1
    /\ log[1].cb = "onArg"
    /\ log[1].arg = <<"-", "-", "-">>
    /\ result.tag = "Ok"

----------------------------------------------------------------------------
(* C3. Equals-attached value: when the candidate that carries the token's  *)
(* "=X" suffix (X possibly empty, possibly containing "=") resolves to a   *)
(* Value rule, that rule's callback is invoked exactly once, with X, with  *)
(* the cursor still on the flag token; if the scan goes on, the cursor     *)
(* advances by exactly one token and the following token is classified on  *)
(* its own; if the callback hands off, the following token is in the rest. *)
CallsOfToken(lg, t) == {k \in 1..Len(lg) : lg[k].tok = t /\ lg[k].cb # "onRest"}

C3_EqualsAttachedValue ==
    [][(AtCandidate /\ IsLastCand /\ HasSuffix(Tok) /\ ToValue) =>
        /\ Len(log') >= Len(log) + 1
        /\ SubSeq(log', 1, Len(log)) = log
        /\ LET e == log'[Len(log) + 1]
           IN /\ e.cb = Resolved[4]
              /\ e.rule = Resolved
              /\ e.arg = Some(TokSuffix(Tok))
              /\ e.state = state
              /\ e.tok = index
              /\ e.at = index
              /\ Cardinality({k \in CallsOfToken(log', index) : log'[k].rule = Resolved}) = 1
              /\ (e.res.tag = "Ok" /\ ~e.res.rest) =>
                    (OneCall /\ pc' = "scan" /\ index' = index + 1 /\ result' = None)
              /\ (e.res.tag = "Ok" /\ e.res.rest) =>
                    (TwoCalls /\ LastCallNext.cb = "onRest"
                     /\ LastCallNext.arg = After(index))
              /\ e.res.tag = "Error" => (OneCall /\ pc' = "done")]_vars

\* --abc=v was given "v", and the token after it was then classified.
C3_Witness ==
    /\ Len(log) >= 2
    /\ log[1].cb = "cbABC"
    /\ log[1].arg = Some(<<"v">>)
    /\ log[1].tok = 0
    /\ log[2].tok = 1
    /\ log[2].cb \in {"cbA", "onArg"}

----------------------------------------------------------------------------
(* C4. Value from the next argument: when the last candidate of a token    *)
(* without "=" suffix resolves to a Value rule and a following token       *)
(* exists, the callback receives that token verbatim, whatever its shape,  *)
(* and the token is skipped: the cursor is on it when the callback is      *)
(* called, the scan goes on behind it, and no callback is ever invoked for *)
(* it.  A following "--" is thus the value; onRest is not invoked for it.  *)
Consumed(lg) == {lg[k].at : k \in {j \in 1..Len(lg) : lg[j].at = lg[j].tok + 1}}

C4_ValueFromNextArg ==
    [][/\ (AtCandidate /\ IsLastCand /\ ~HasSuffix(Tok) /\ ToValue
           /\ index + 1 < Len(argv)) =>
            /\ Len(log') >= Len(log) + 1
            /\ SubSeq(log', 1, Len(log)) = log
            /\ LET e == log'[Len(log) + 1]
               IN /\ e.cb = Resolved[4]
                  /\ e.arg = Some(argv[index + 2])
                  /\ e.state = state
                  /\ e.tok = index
                  /\ e.at = index + 1
                  /\ (e.res.tag = "Ok" /\ ~e.res.rest) =>
                        (OneCall /\ pc' = "scan" /\ index' = index + 2
                         /\ result' = None)
                  /\ e.res.tag = "Error" => (OneCall /\ pc' = "done")
       /\ \A k \in 1..Len(log') : log'[k].tok \notin Consumed(log')]_vars

\* "--" was the value of -c, onRest was not invoked for it, and the token
\* after it was classified as a flag.
C4_Witness ==
    /\ Len(log) = 2
    /\ log[1].cb = "cbC"
    /\ log[1].arg = Some(<<"-", "-">>)
    /\ log[1].at = 1
    /\ log[2].cb = "cbA"
    /\ log[2].tok = 2

----------------------------------------------------------------------------
(* C5. Conditional lookahead: when a candidate of a token without "="      *)
(* suffix resolves to a Switch rule, the switch callback is invoked with   *)
(* the state only, and the following token is not consumed: the cursor is  *)
(* on the flag token when the callback is called, and after the token's    *)
(* last candidate the cursor advances by one, to classify the following    *)
(* token.                                                                  *)
C5_SwitchLeavesNextToken ==
    [][(AtCandidate /\ ~HasSuffix(Tok) /\ ToSwitch) =>
        /\ Len(log') >= Len(log) + 1
        /\ SubSeq(log', 1, Len(log)) = log
        /\ LET e == log'[Len(log) + 1]
           IN /\ e.cb = Resolved[3]
              /\ e.arg = Undefined
              /\ e.state = state
              /\ e.tok = index
              /\ e.at = index
              /\ (e.res.tag = "Ok" /\ ~e.res.rest) =>
                    /\ OneCall
                    /\ result' = None
                    /\ IF IsLastCand
                       THEN pc' = "scan" /\ index' = index + 1
                       ELSE pc' = "items" /\ index' = index /\ item' = item + 1
              /\ (e.res.tag = "Ok" /\ e.res.rest) =>
                    (TwoCalls /\ LastCallNext.cb = "onRest"
                     /\ LastCallNext.arg = After(index))]_vars

\* -a was followed by "--": the switch did not take it, and it was then
\* classified as the terminator.
C5_Witness ==
    /\ Len(log) = 2
    /\ Len(argv) >= 2
    /\ argv[2] = <<"-", "-">>
    /\ log[1].cb = "cbA"
    /\ log[1].tok = 0
    /\ log[2].cb = "onRest"
    /\ log[2].tok = 1
    /\ log[2].at = 1

----------------------------------------------------------------------------
(* C6. UnexpectedFlagValue: when the candidate that carries the token's    *)
(* "=" suffix (the empty suffix included) resolves to a Switch rule, parse *)
(* returns FlagError UnexpectedFlagValue with that flag's dash and name    *)
(* and the attached value, and no callback is invoked.                     *)
C6_UnexpectedFlagValue ==
    [][(AtCandidate /\ IsLastCand /\ HasSuffix(Tok) /\ ToSwitch) =>
        /\ pc' = "done"
        /\ result' = [tag |-> "FlagError",
                      error |-> [tag |-> "UnexpectedFlagValue",
                                 dash |-> TokDash(Tok),
                                 name |-> CandName(Tok, item),
                                 value |-> TokSuffix(Tok)]]
        /\ log' = log]_vars

\* "-a=" was refused: the attached value is the empty string.
C6_Witness ==
    /\ pc = "done"
    /\ argv = << <<"-", "a", "=">> >>
    /\ result.tag = "FlagError"
    /\ result.error.tag = "UnexpectedFlagValue"
    /\ result.error.value = <<>>
    /\ log = <<>>

----------------------------------------------------------------------------
(* C7. MissingFlagValue: when the last candidate of the last token of the  *)
(* input, a token without "=" suffix, resolves to a Value rule, parse      *)
(* returns FlagError MissingFlagValue with the flag's dash, name and the   *)
(* rule's value description, and no callback is invoked.                   *)
C7_MissingFlagValue ==
    [][(AtCandidate /\ IsLastCand /\ ~HasSuffix(Tok) /\ ToValue
        /\ index = Len(argv) - 1) =>
        /\ pc' = "done"
        /\ result' = [tag |-> "FlagError",
                      error |-> [tag |-> "MissingFlagValue",
                                 dash |-> TokDash(Tok),
                                 name |-> CandName(Tok, item),
                                 valueDescription |-> Resolved[3]]]
        /\ log' = log]_vars

\* "-ac" was the last token: -a was invoked, then -c had no value.
C7_Witness ==
    /\ pc = "done"
    /\ Len(argv) >= 2
    /\ argv[Len(argv)] = <<"-", "a", "c">>
    /\ result.tag = "FlagError"
    /\ result.error.tag = "MissingFlagValue"
    /\ result.error.name = <<"c">>
    /\ Len(log) >= 2
    /\ LastCall.cb = "cbA"

----------------------------------------------------------------------------
(* C8. ValueFlagNotLastInGroup: in a single-dash group of two or more      *)
(* characters, a candidate at a non-last position that resolves to a Value *)
(* rule makes parse return FlagError ValueFlagNotLastInGroup naming that   *)
(* candidate, with the rule's value description, whether or not the token  *)
(* has an "=" suffix or a following token; no callback is invoked by that  *)
(* step, nor afterwards.                                                   *)
C8_ValueFlagNotLastInGroup ==
    [][/\ (AtCandidate /\ TokDash(Tok) = "-" /\ NCands(Tok) >= 2
           /\ ~IsLastCand /\ ToValue) =>
            /\ pc' = "done"
            /\ result' = [tag |-> "FlagError",
                          error |-> [tag |-> "ValueFlagNotLastInGroup",
                                     dash |-> "-",
                                     name |-> CandName(Tok, item),
                                     valueDescription |-> Resolved[3]]]
            /\ log' = log
       /\ Final]_vars

\* "-ca=" was refused at -c, although a value was attached.
C8_Witness ==
    /\ pc = "done"
    /\ argv = << <<"-", "c", "a", "=">> >>
    /\ result.tag = "FlagError"
    /\ result.error.tag = "ValueFlagNotLastInGroup"
    /\ result.error.name = <<"c">>
    /\ log = <<>>

----------------------------------------------------------------------------
(* The history against the input: which calls a token accounts for.        *)

\* The calls made for the token at position p (onRest aside), in order.
EntriesOf(lg, p) == SelectSeq(lg, LAMBDA e : e.tok = p /\ e.cb # "onRest")

\* The first n calls for the flag token at p are those of its first n
\* candidates, one each, in order.
CandidatesCalled(lg, p, n) ==
    LET es == EntriesOf(lg, p)
    IN /\ Len(es) = n
       /\ n <= NCands(argv[p + 1])
       /\ \A j \in 1..n :
            /\ es[j].rule # <<>>
            /\ es[j].rule[1] = TokDash(argv[p + 1])
            /\ es[j].rule[2] = CandName(argv[p + 1], j)
            /\ es[j].cb = es[j].rule[Len(es[j].rule)]

\* The token at p was handled completely, in the one role the input gives
\* it: a consumed value has no call, a flag token one call per candidate, a
\* positional one call of onArg with the token.
TokenDone(lg, p) ==
    IF p \in Consumed(lg) THEN EntriesOf(lg, p) = <<>>
    ELSE IF argv[p + 1] = <<"-", "-">> THEN FALSE
    ELSE IF IsFlagToken(argv[p + 1])
         THEN CandidatesCalled(lg, p, NCands(argv[p + 1]))
    ELSE /\ Len(EntriesOf(lg, p)) = 1
         /\ EntriesOf(lg, p)[1].cb = "onArg"
         /\ EntriesOf(lg, p)[1].arg = argv[p + 1]

\* The calls are in the order of the tokens they were made for.
InTokenOrder(lg) == \A k \in 2..Len(lg) : lg[k - 1].tok <= lg[k].tok

\* Every callback so far returned Ok without asking for the rest.
AllPlainOk(lg) == \A k \in 1..Len(lg) : lg[k].res.tag = "Ok" /\ ~lg[k].res.rest

\* The calls as (callback, argument) pairs.
CallList(lg) == [k \in 1..Len(lg) |-> <<lg[k].cb, lg[k].arg>>]

----------------------------------------------------------------------------
(* C9. No rollback: when parse returns an error raised at candidate k of   *)
(* the token at position t, every earlier token has been handled           *)
(* completely, each of its callbacks invoked exactly once and in order;    *)
(* the callbacks of candidates 1..k-1 of token t have been invoked once    *)
(* each, in order; candidate k's callback (for an engine-detected error)   *)
(* and everything later was not invoked; and the history only ever grows.  *)
(* For the rules -a (switch), -b, -c, --abc (value) and the input          *)
(* ["--abc=10", "-abc=20"] the calls at return are [--abc("10"), -a].      *)
EngineError(res) == res.tag = "FlagError" /\ res.error.tag # "Custom"

NoRollback(lg, res, idx, itm) ==
    LET t == IF EngineError(res) THEN idx ELSE lg[Len(lg)].tok
    IN /\ \A p \in 0..(t - 1) : TokenDone(lg, p)
       /\ InTokenOrder(lg)
       /\ \A k \in 1..Len(lg) : lg[k].tok <= t
       /\ EngineError(res) =>
            /\ CandidatesCalled(lg, t, itm - 1)
            /\ res.error.name = CandName(argv[t + 1], itm)
       /\ (~EngineError(res) /\ IsFlagToken(argv[t + 1])) =>
            \E n \in 1..NCands(argv[t + 1]) : CandidatesCalled(lg, t, n)

C9_NoRollback ==
    [][/\ Len(log') >= Len(log)
       /\ SubSeq(log', 1, Len(log)) = log
       /\ (pc' = "done" /\ result'.tag # "Ok") =>
             NoRollback(log', result', index', item')
       /\ (pc' = "done" /\ gen = "strict" /\ AllPlainOk(log')
           /\ argv = << <<"-","-","a","b","c","=","1","0">>,
                        <<"-","a","b","c","=","2","0">> >>) =>
             /\ result' = [tag |-> "FlagError",
                           error |-> [tag |-> "ValueFlagNotLastInGroup",
                                      dash |-> "-", name |-> <<"b">>,
                                      valueDescription |-> "a number"]]
             /\ CallList(log') = << <<"cbABC", Some(<<"1", "0">>)>>,
                                    <<"cbA", Undefined>> >>
       /\ Final]_vars

\* The test "value flag not last in group" has returned its error, with the
\* callbacks of --abc and -a invoked.
C9_Witness ==
    /\ pc = "done"
    /\ gen = "strict"
    /\ argv = << <<"-","-","a","b","c","=","1","0">>, <<"-","a","b","c","=","2","0">> >>
    /\ result.tag = "FlagError"
    /\ result.error.tag = "ValueFlagNotLastInGroup"
    /\ Len(log) = 2
    /\ state = 2

----------------------------------------------------------------------------
(* C10. Group value goes to the tail only: in a single-dash group with an  *)
(* attached "=v", a non-last member that resolves to a Switch rule has its *)
(* callback invoked (no UnexpectedFlagValue), and when the last member     *)
(* resolves to a Value rule its callback is invoked with v; once it        *)
(* returns Ok the token is complete: every member's callback has been      *)
(* invoked exactly once, in order, the non-last ones as switches.          *)
C10_GroupValueToTail ==
    [][(AtCandidate /\ TokDash(Tok) = "-" /\ NCands(Tok) >= 2 /\ HasSuffix(Tok)) =>
        /\ (~IsLastCand /\ ToSwitch) =>
              /\ Len(log') >= Len(log) + 1
              /\ SubSeq(log', 1, Len(log)) = log
              /\ log'[Len(log) + 1].cb = Resolved[3]
              /\ log'[Len(log) + 1].arg = Undefined
              /\ result'.tag = "FlagError" => result'.error.tag = "Custom"
              /\ AllPlainOk(log') =>
                    (pc' = "items" /\ item' = item + 1 /\ result' = None)
        /\ (IsLastCand /\ ToValue) =>
              /\ Len(log') >= Len(log) + 1
              /\ SubSeq(log', 1, Len(log)) = log
              /\ log'[Len(log) + 1].cb = Resolved[4]
              /\ log'[Len(log) + 1].arg = Some(TokSuffix(Tok))
              /\ result'.tag = "FlagError" => result'.error.tag = "Custom"
              /\ AllPlainOk(log') =>
                    /\ pc' = "scan"
                    /\ result' = None
                    /\ TokenDone(log', index)
                    /\ \A j \in 1..(NCands(Tok) - 1) :
                          /\ Len(EntriesOf(log', index)[j].rule) = 3
                          /\ EntriesOf(log', index)[j].arg = Undefined]_vars

\* The test "value flag IS last in group" has returned Ok: -a, -b and -c("20")
\* were invoked once each for "-abc=20".
C10_Witness ==
    /\ pc = "done"
    /\ gen = "loose"
    /\ argv = << <<"-","-","a","b","c","=","1","0">>, <<"-","a","b","c","=","2","0">> >>
    /\ result = [tag |-> "Ok", state |-> 4]
    /\ CallList(log) = << <<"cbABC", Some(<<"1", "0">>)>>,
                          <<"cbA", Undefined>>,
                          <<"cbB", Undefined>>,
                          <<"cbC", Some(<<"2", "0">>)>> >>

----------------------------------------------------------------------------
(* C11. Group expansion equivalence: with -a and -b switches and -c a      *)
(* value rule, in a rule set that does not depend on the state, and no     *)
(* callback asking for the rest, ["-abc", "v"] and ["-a", "-b", "-c", "v"] *)
(* give the same calls (callback, argument, state, in order) and the same  *)
(* ParseResult: for both inputs the calls are a prefix of                  *)
(* -a(), -b(), -c("v") that ends at the first Error, and the result is the *)
(* same function of what these callbacks returned.                         *)
Grouped == << <<"-", "a", "b", "c">>, <<"v">> >>
Separate == << <<"-", "a">>, <<"-", "b">>, <<"-", "c">>, <<"v">> >>

ExpandedCalls ==
    << [cb |-> "cbA", arg |-> Undefined, state |-> 0],
       [cb |-> "cbB", arg |-> Undefined, state |-> 1],
       [cb |-> "cbC", arg |-> Some(<<"v">>), state |-> 2] >>

ExpandedResult(lg) ==
    IF AllPlainOk(lg) THEN [tag |-> "Ok", state |-> 3]
    ELSE [tag |-> "FlagError",
          error |-> [tag |-> "Custom", dash |-> "-",
                     name |-> <<<<"a">>, <<"b">>, <<"c">>>>[Len(lg)],
                     valueDescription |->
                        <<Undefined, Undefined, Some("a number")>>[Len(lg)],
                     error |-> lg[Len(lg)].res.error]]

NoHandoffAsked(lg) == \A k \in 1..Len(lg) : lg[k].res.tag = "Ok" => ~lg[k].res.rest

C11_GroupExpansionEquivalence ==
    (pc = "done" /\ gen = "loose" /\ argv \in {Grouped, Separate}
     /\ NoHandoffAsked(log)) =>
        /\ Len(log) \in 1..3
        /\ \A k \in 1..Len(log) :
              [cb |-> log[k].cb, arg |-> log[k].arg, state |-> log[k].state]
                 = ExpandedCalls[k]
        /\ AllPlainOk(log) => Len(log) = 3
        /\ \A k \in 1..(Len(log) - 1) : log[k].res.tag = "Ok"
        /\ result = ExpandedResult(log)

\* ["-abc", "v"] has returned Ok after the three calls.
C11_Witness ==
    /\ pc = "done"
    /\ gen = "loose"
    /\ argv = Grouped
    /\ Len(log) = 3
    /\ result = [tag |-> "Ok", state |-> 3]

----------------------------------------------------------------------------
(* C12. UnknownFlag is fail-fast: when a candidate (a whole double-dash    *)
(* name, or one character of a single-dash group) has no rule in the       *)
(* active rule set, that step returns FlagError UnknownFlag for the        *)
(* candidate's name and invokes nothing; nothing is processed afterwards.  *)
C12_UnknownFlagFailFast ==
    [][/\ (AtCandidate /\ Resolved = <<>>) =>
            /\ pc' = "done"
            /\ result'.tag = "FlagError"
            /\ result'.error.tag = "UnknownFlag"
            /\ result'.error.name = CandName(Tok, item)
            /\ log' = log
            /\ UNCHANGED <<state, rules, genCalls, index, item>>
       /\ Final]_vars

\* -b was unknown after -c had taken "-a" as its value; more tokens followed.
C12_Witness ==
    /\ pc = "done"
    /\ gen = "modal"
    /\ result.tag = "FlagError"
    /\ result.error.tag = "UnknownFlag"
    /\ result.error.name = <<"a", "b", "c">>
    /\ Len(log) >= 1
    /\ index < Len(argv) - 1

----------------------------------------------------------------------------
(* C13. Every engine-detected flag error carries the spelling of the flag  *)
(* as written: dash is the dash mode of the token the candidate came from  *)
(* and name is the candidate's name.  (Fails: UnknownFlag always carries   *)
(* the dash "--", also for a candidate of a single-dash token.)            *)
C13_ErrorCarriesSpelling ==
    (pc = "done" /\ EngineError(result)) =>
        /\ result.error.dash = TokDash(argv[index + 1])
        /\ result.error.name = CandName(argv[index + 1], item)

----------------------------------------------------------------------------
(* C14. Custom flag errors: when a flag callback (switch or value) returns *)
(* Error with payload e, parse returns FlagError Custom with the matched   *)
(* rule's dash and name, its value description (undefined for a switch)    *)
(* and e unchanged; the state is not replaced, the rule set not            *)
(* recomputed, and nothing is invoked afterwards.                          *)
C14_CustomFlagError ==
    [][/\ (AtCandidate /\ Resolved # <<>> /\ Len(log') > Len(log)
           /\ log'[Len(log) + 1].res.tag = "Error") =>
            /\ OneCall
            /\ LastCallNext.cb = Resolved[Len(Resolved)]
            /\ lastResult'.tag = "Error"
            /\ pc' = "done"
            /\ result' = [tag |-> "FlagError",
                          error |-> [tag |-> "Custom",
                                     dash |-> TokDash(Tok),
                                     name |-> CandName(Tok, item),
                                     valueDescription |->
                                        IF ToSwitch THEN Undefined
                                        ELSE Some(Resolved[3]),
                                     error |-> lastResult'.error]]
            /\ UNCHANGED <<state, rules, genCalls>>
       /\ Final]_vars

\* -c("v") returned Error "worse" after -a had returned Ok.
C14_Witness ==
    /\ pc = "done"
    /\ Len(log) = 2
    /\ log[2].cb = "cbC"
    /\ log[2].arg = Some(<<"v">>)
    /\ result.tag = "FlagError"
    /\ result.error.tag = "Custom"
    /\ result.error.valueDescription = Some("a number")
    /\ result.error.error = "worse"
    /\ state = 1
    /\ genCalls = <<0, 1>>

----------------------------------------------------------------------------
(* C15. Caller errors from the positional or rest handler: whenever onArg  *)
(* or onRest has returned Error with payload e (onRest reached by a        *)
(* terminator or by a handoff from a flag callback or from onArg), it was  *)
(* the last callback invoked and parse returned ArgError carrying e, never *)
(* FlagError and never Ok.                                                 *)
C15_CallerErrors ==
    \A k \in 1..Len(log) :
        (log[k].cb \in {"onArg", "onRest"} /\ log[k].res.tag = "Error") =>
            /\ k = Len(log)
            /\ pc = "done"
            /\ result = [tag |-> "ArgError", error |-> log[k].res.error]

\* onRest returned Error "worse" after a flag callback had handed off to it.
C15_Witness ==
    /\ pc = "done"
    /\ Len(log) = 2
    /\ log[1].cb \notin {"onArg", "onRest"}
    /\ log[1].res.tag = "Ok"
    /\ log[1].res.rest
    /\ log[2].cb = "onRest"
    /\ log[2].res = [tag |-> "Error", error |-> "worse"]
    /\ result = [tag |-> "ArgError", error |-> "worse"]

----------------------------------------------------------------------------
(* C16. Rest handoff from the positional callback: when onArg returns Ok   *)
(* with handleRemainingAsRest set for the token at position i, the same    *)
(* step invokes onRest with exactly the tokens at positions i+1.., in      *)
(* order and unclassified, and with the state onArg returned; parse        *)
(* returns the translation of onRest's result.                             *)
C16_RestHandoffFromPositional ==
    [][/\ (AtToken /\ Tok # <<"-", "-">> /\ ~IsFlagToken(Tok)
           /\ Len(log') > Len(log)
           /\ log'[Len(log) + 1].res.tag = "Ok"
           /\ log'[Len(log) + 1].res.rest) =>
            /\ TwoCalls
            /\ log'[Len(log) + 1].cb = "onArg"
            /\ log'[Len(log) + 1].arg = Tok
            /\ LastCallNext.cb = "onRest"
            /\ LastCallNext.arg = After(index)
            /\ LastCallNext.state = log'[Len(log) + 1].res.state
            /\ LastCallNext.res = Seen(lastResult')
            /\ pc' = "done"
            /\ result' = Translated(lastResult')
       /\ Final]_vars

\* onArg handed off at the first token; a flag token and the terminator
\* followed and were passed to onRest as they were.
C16_Witness ==
    /\ pc = "done"
    /\ Len(argv) = 3
    /\ Len(log) = 2
    /\ log[1].cb = "onArg"
    /\ log[1].res.rest
    /\ log[2].cb = "onRest"
    /\ log[2].arg = << <<"-", "a">>, <<"-", "-">> >>
    /\ log[2].state = 1
    /\ result = [tag |-> "Ok", state |-> 2]

----------------------------------------------------------------------------
(* C17. Rest handoff from a flag callback short-circuits the group: when   *)
(* the callback of any member of a flag token returns Ok with              *)
(* handleRemainingAsRest set, the same step invokes onRest with the tokens *)
(* strictly after the cursor (which is on the value token if the value was *)
(* taken from the next token) and with the state the callback returned;    *)
(* parse returns onRest's translated result and no later candidate of the  *)
(* token is resolved.  So ["-help"] with only -h defined and               *)
(* ["--help", "--unknown"] succeed when the help callback hands off.       *)
C17_RestHandoffFromFlag ==
    /\ [][/\ (AtCandidate /\ Len(log') > Len(log)
              /\ log'[Len(log) + 1].res.tag = "Ok"
              /\ log'[Len(log) + 1].res.rest) =>
               /\ TwoCalls
               /\ Resolved # <<>>
               /\ log'[Len(log) + 1].cb = Resolved[Len(Resolved)]
               /\ log'[Len(log) + 1].at =
                     IF ToValue /\ IsLastCand /\ ~HasSuffix(Tok)
                     THEN index + 1 ELSE index
               /\ LastCallNext.cb = "onRest"
               /\ LastCallNext.arg = After(log'[Len(log) + 1].at)
               /\ LastCallNext.state = log'[Len(log) + 1].res.state
               /\ LastCallNext.res = Seen(lastResult')
               /\ pc' = "done"
               /\ result' = Translated(lastResult')
          /\ Final]_vars
    /\ [](( /\ pc = "done"
            /\ gen = "help"
            /\ argv \in { << <<"-", "h", "e", "l", "p">> >>,
                         << <<"-", "-", "h", "e", "l", "p">>,
                            <<"-", "-", "u", "n", "k", "n", "o", "w", "n">> >> } ) =>
              /\ Len(log) >= 1
              /\ log[1].cb = "cbHelp"
              /\ (log[1].res.tag = "Ok" /\ log[1].res.rest) =>
                    /\ Len(log) = 2
                    /\ log[2].cb = "onRest"
                    /\ log[2].arg = After(0)
                    /\ log[2].res.tag = "Ok" => result.tag = "Ok")

\* ["-help"] with only -h defined: the callback of h handed off, e, l and p
\* were never resolved, and parse returned Ok.
C17_Witness ==
    /\ pc = "done"
    /\ gen = "help"
    /\ argv = << <<"-", "h", "e", "l", "p">> >>
    /\ item = 1
    /\ Len(log) = 2
    /\ log[2].cb = "onRest"
    /\ log[2].arg = <<>>
    /\ result = [tag |-> "Ok", state |-> 2]

----------------------------------------------------------------------------
(* C18. In every run onRest is invoked at most once; it is invoked only    *)
(* for a classified terminator token or right after a callback that        *)
(* returned Ok with handleRemainingAsRest set (every such callback is      *)
(* followed by it, with an empty list when no tokens remain); it is not    *)
(* invoked when the input is exhausted without either; and it is the last  *)
(* callback invoked.                                                       *)
RestCalls(lg) == {k \in 1..Len(lg) : lg[k].cb = "onRest"}
Requested(e) == e.cb # "onRest" /\ e.res.tag = "Ok" /\ e.res.rest
AtTerminator(e) ==
    /\ e.tok = e.at
    /\ e.tok < Len(argv)
    /\ argv[e.tok + 1] = <<"-", "-">>

C18_RestAtMostOnce ==
    /\ Cardinality(RestCalls(log)) <= 1
    /\ \A k \in RestCalls(log) :
          /\ k = Len(log)
          /\ pc = "done"
          /\ IF k > 1 /\ Requested(log[k - 1])
             THEN log[k].arg = After(log[k - 1].at)
             ELSE AtTerminator(log[k])
    /\ \A k \in 1..Len(log) :
          Requested(log[k]) => (k < Len(log) /\ log[k + 1].cb = "onRest")
    /\ (pc = "done" /\ index >= Len(argv) /\ result.tag = "Ok"
        /\ \A k \in 1..Len(log) : ~Requested(log[k]))
          => RestCalls(log) = {}

\* The callback for the last token handed off: onRest was called once, last,
\* with the empty list.
C18_Witness ==
    /\ pc = "done"
    /\ Len(log) = 3
    /\ RestCalls(log) = {3}
    /\ Requested(log[2])
    /\ log[2].at = Len(argv) - 1
    /\ log[3].arg = <<>>

----------------------------------------------------------------------------
(* C19. The rule-set generator.  As stated: in every run the number of     *)
(* flagRulesFromState calls is 1 plus the number of Ok-returning callback  *)
(* invocations, the rest handler included.  (Fails: nothing is recomputed  *)
(* after onRest.)                                                          *)
OkCalls(lg) == SelectSeq(lg, LAMBDA e : e.res.tag = "Ok")

C19_GeneratorAfterEveryOk ==
    Len(genCalls) = 1 + Len(OkCalls(log))

(* C19, amended.  flagRulesFromState is called once before scanning, with  *)
(* the initial state (also for empty input), and once again after every    *)
(* flag or positional callback invocation that returns Ok, with the state  *)
(* that callback returned; it is not called after the rest handler and not *)
(* after a callback that returns Error.                                    *)
OkScanCalls(lg) == SelectSeq(lg, LAMBDA e : e.cb # "onRest" /\ e.res.tag = "Ok")

C19_GeneratorAfterScanOk ==
    /\ Len(genCalls) = 1 + Len(OkScanCalls(log))
    /\ genCalls[1] = 0
    /\ \A k \in 1..Len(OkScanCalls(log)) :
          genCalls[k + 1] = OkScanCalls(log)[k].res.state

\* A flag callback, onArg and the rest handler all returned Ok: three
\* generator calls, none for the rest handler.
C19_Witness ==
    /\ pc = "done"
    /\ Len(log) = 3
    /\ log[1].cb \notin {"onArg", "onRest"}
    /\ log[2].cb = "onArg"
    /\ log[3].cb = "onRest"
    /\ result = [tag |-> "Ok", state |-> 3]
    /\ genCalls = <<0, 1, 2>>

----------------------------------------------------------------------------
(* C20. The active rule set.  As stated: every candidate expanded from a   *)
(* token is resolved against flagRulesFromState(s), where s is the state   *)
(* at the moment the scan reached that token.  (Fails: the rule set is     *)
(* recomputed after each member's callback, inside the group.)             *)
FirstSpelled(rl, d, n) ==
    LET m == Spelled(rl, d, n)
    IN IF m = {} THEN <<>> ELSE rl[CHOOSE i \in m : \A j \in m : i <= j]

\* The state when the scan reached the token at the cursor.
TokenStartState ==
    LET e == EntriesOf(log, index)
    IN IF e = <<>> THEN state ELSE e[1].state

C20_RulesFromTokenStart ==
    AtCandidate =>
        Resolved = FirstSpelled(flagRulesFromState(gen, TokenStartState),
                                TokDash(Tok), CandName(Tok, item))

(* C20, amended.  Every token, and every candidate of a group, is resolved *)
(* against the rule set computed from the state immediately before that    *)
(* candidate is resolved: the state when the scan reached the token for    *)
(* the first candidate, the state returned by the preceding member's       *)
(* callback for a later one.  A flag callback is the first rule with its   *)
(* spelling in the rule set of the state it is called with.                *)
LatestState == IF log = <<>> THEN 0 ELSE LastCall.res.state

C20_RulesFromLatestState ==
    /\ pc # "done" =>
          /\ state = LatestState
          /\ rules = flagRulesFromState(gen, state)
    /\ AtCandidate =>
          Resolved = FirstSpelled(flagRulesFromState(gen, LatestState),
                                  TokDash(Tok), CandName(Tok, item))
    /\ \A k \in 1..Len(log) :
          log[k].rule # <<>> =>
              log[k].rule = FirstSpelled(flagRulesFromState(gen, log[k].state),
                                         log[k].rule[1], log[k].rule[2])

\* ["-ac"] under the state-dependent rule set: c is a value flag in the
\* initial state, but after -a it was resolved as a switch and called.
C20_Witness ==
    /\ pc = "done"
    /\ gen = "modal"
    /\ argv = << <<"-", "a", "c">> >>
    /\ Len(log) = 2
    /\ log[2].cb = "cbC2"
    /\ log[2].state = 1
    /\ Len(FirstSpelled(flagRulesFromState(gen, 0), "-", <<"c">>)) = 4
    /\ result = [tag |-> "Ok", state |-> 2]

----------------------------------------------------------------------------
(* C21. First match wins: when several rules of the active rule set have   *)
(* the candidate's spelling, only the first in list order is applied: its  *)
(* arity decides the value handling and the errors, its callback is the    *)
(* only flag callback the step invokes (at most once), and no later        *)
(* matching rule is invoked for the candidate.                             *)
Ambiguous == Cardinality(Spelled(rules, TokDash(Tok), CandName(Tok, item))) >= 2

\* The flag callbacks this step invoked.
NewFlagCalls ==
    SelectSeq(SubSeq(log', Len(log) + 1, Len(log')), LAMBDA e : e.cb # "onRest")

\* This step returned the engine error `tag` and invoked nothing.
EngineErrorStep(tag) ==
    /\ log' = log
    /\ pc' = "done"
    /\ result'.tag = "FlagError"
    /\ result'.error.tag = tag

C21_FirstMatchWins ==
    [][(AtCandidate /\ Ambiguous) =>
          /\ SubSeq(log', 1, Len(log)) = log
          /\ Len(NewFlagCalls) <= 1
          /\ \A k \in 1..Len(NewFlagCalls) :
                /\ NewFlagCalls[k].rule = Resolved
                /\ NewFlagCalls[k].cb = Resolved[Len(Resolved)]
          /\ ToSwitch =>
                IF IsLastCand /\ HasSuffix(Tok)
                THEN EngineErrorStep("UnexpectedFlagValue")
                ELSE /\ Len(NewFlagCalls) = 1
                     /\ NewFlagCalls[1].arg = Undefined
          /\ ToValue =>
                IF ~IsLastCand
                THEN EngineErrorStep("ValueFlagNotLastInGroup")
                ELSE IF HasSuffix(Tok)
                THEN /\ Len(NewFlagCalls) = 1
                     /\ NewFlagCalls[1].arg = Some(TokSuffix(Tok))
                ELSE IF index < Len(argv) - 1
                THEN /\ Len(NewFlagCalls) = 1
                     /\ NewFlagCalls[1].arg = Some(argv[index + 2])
                ELSE EngineErrorStep("MissingFlagValue")]_vars

\* -a has a switch rule and, later in the list, a value rule: the switch was
\* called and the next token was left to onArg.
C21_Witness ==
    /\ gen = "loose"
    /\ Len(argv) >= 2
    /\ argv[1] = <<"-", "a">>
    /\ argv[2] = <<"v">>
    /\ Len(log) >= 2
    /\ log[1].cb = "cbA"
    /\ log[1].arg = Undefined
    /\ log[2].cb = "onArg"
    /\ log[2].arg = <<"v">>

----------------------------------------------------------------------------
(* C22. Spelling sets: a single rule carries a set of accepted spellings   *)
(* that may mix single- and double-dash forms, so the one rule invoked for *)
(* the token "-h" or for the token "--help" accepts both "-h" and          *)
(* "--help".  (Fails: a rule is [dash, name, ...] and is matched by        *)
(* dash === flagDash && name === flagName, so it accepts one spelling.)    *)
Accepts(rule, dash, name) == Spelled(<<rule>>, dash, name) # {}

C22_SpellingSets ==
    (/\ pc = "done"
     /\ gen = "help"
     /\ argv \in { << <<"-", "h">> >>, << <<"-", "-", "h", "e", "l", "p">> >> }
     /\ log # <<>>) =>
        /\ log[1].cb = "cbHelp"
        /\ Accepts(log[1].rule, "-", <<"h">>)
        /\ Accepts(log[1].rule, "--", <<"h", "e", "l", "p">>)

----------------------------------------------------------------------------
(* C23. Empty input: parse([]) returns Ok with the initial state, for      *)
(* every rule-set generator, and invokes neither onArg, onRest nor a flag  *)
(* callback.                                                               *)
C23_EmptyInput ==
    argv = <<>> =>
        /\ log = <<>>
        /\ state = 0
        /\ pc \in {"scan", "done"}
        /\ pc = "done" => result = [tag |-> "Ok", state |-> 0]

\* parse([]) has returned, under the state-dependent generator.
C23_Witness ==
    /\ argv = <<>>
    /\ gen = "modal"
    /\ pc = "done"
    /\ result = [tag |-> "Ok", state |-> 0]
    /\ log = <<>>

----------------------------------------------------------------------------
(* C24. Fail-fast: the first error of any kind (engine-detected flag       *)
(* error, flag callback Error, onArg Error, onRest Error) ends the scan    *)
(* and is the ParseResult: a callback that returned Error is the last one  *)
(* invoked and its payload is in the result; once the result is an error   *)
(* nothing changes any more (no callback, no generator call, no other      *)
(* result).                                                                *)
IsError(res) == res.tag \in {"FlagError", "ArgError"}

C24_FailFast ==
    /\ [][IsError(result) => UNCHANGED vars]_vars
    /\ [](IsError(result) => pc = "done")
    /\ [](\A k \in 1..Len(log) :
            log[k].res.tag = "Error" =>
                /\ k = Len(log)
                /\ IsError(result)
                /\ result.tag = "ArgError" => result.error = log[k].res.error
                /\ result.tag = "FlagError" =>
                      /\ result.error.tag = "Custom"
                      /\ result.error.error = log[k].res.error)

\* onArg returned Error at the first of three tokens: the other two were
\* never looked at.
C24_Witness ==
    /\ pc = "done"
    /\ Len(argv) = 3
    /\ index = 0
    /\ Len(log) = 1
    /\ log[1].cb = "onArg"
    /\ result = [tag |-> "ArgError", error |-> "bad"]
    /\ genCalls = <<0>>

----------------------------------------------------------------------------
(* C25. State threading: the first callback invoked receives the initial   *)
(* state and every later callback (flag, positional or rest) receives the  *)
(* state returned by the immediately preceding callback, which returned    *)
(* Ok; an Ok result carries the state returned by the last invoked         *)
(* callback (onRest included), the initial state if none was invoked.      *)
C25_StateThreading ==
    /\ \A k \in 1..Len(log) :
          IF k = 1 THEN log[k].state = 0
          ELSE /\ log[k - 1].res.tag = "Ok"
               /\ log[k].state = log[k - 1].res.state
    /\ (pc = "done" /\ result.tag = "Ok") =>
          IF log = <<>> THEN result.state = 0
          ELSE /\ LastCall.res.tag = "Ok"
               /\ result.state = LastCall.res.state

\* Two calls during the scan, then onRest: each got the state the one
\* before it returned, and the result carries the state onRest returned.
C25_Witness ==
    /\ pc = "done"
    /\ Len(log) = 3
    /\ log[3].cb = "onRest"
    /\ log[1].state = 0
    /\ log[2].state = 1
    /\ log[3].state = 2
    /\ state = 2
    /\ result = [tag |-> "Ok", state |-> 3]

----------------------------------------------------------------------------
(* C26. Ordering: callbacks are invoked strictly left to right: a call     *)
(* made earlier was triggered by a token at a position not after the one   *)
(* that triggered a later call, and the calls for the members of one       *)
(* single-dash group are in the order of its characters (the n-th flag     *)
(* call of the token is for its n-th character).                           *)
GroupAt(p) ==
    /\ argv[p + 1] # <<"-", "-">>
    /\ IsFlagToken(argv[p + 1])
    /\ TokDash(argv[p + 1]) = "-"

C26_LeftToRight ==
    /\ \A j \in 1..Len(log) : \A k \in (j + 1)..Len(log) :
          /\ log[j].tok <= log[k].tok
          /\ log[j].at <= log[k].at
          /\ log[j].cb # "onRest"
    /\ \A p \in 0..(Len(argv) - 1) :
          GroupAt(p) =>
              /\ Len(EntriesOf(log, p)) <= NCands(argv[p + 1])
              /\ \A n \in 1..Len(EntriesOf(log, p)) :
                    /\ Len(EntriesOf(log, p)[n].rule) >= 3
                    /\ EntriesOf(log, p)[n].rule[2] = CandName(argv[p + 1], n)

\* "-ac=v" then "v": -a, then -c, then onArg.
C26_Witness ==
    /\ gen = "loose"
    /\ argv = << <<"-", "a", "c", "=", "v">>, <<"v">> >>
    /\ Len(log) = 3
    /\ log[1].cb = "cbA"
    /\ log[2].cb = "cbC"
    /\ log[3].cb = "onArg"
    /\ log[1].tok = 0
    /\ log[2].tok = 0
    /\ log[3].tok = 1

----------------------------------------------------------------------------
(* C28. Dynamic rule sets: every flag candidate, also one that follows an  *)
(* earlier member of the same group, is resolved against the rule set      *)
(* computed from the state returned by the most recent Ok callback (flag   *)
(* or positional), the initial state if there was none: the candidate is   *)
(* UnknownFlag exactly when that rule set has no rule with its spelling,   *)
(* and otherwise the rule applied is that rule set's.  So a flag known in  *)
(* the initial state is unknown after a positional changed the state.      *)
RulesNow == flagRulesFromState(gen, LatestState)
RuleNow == FirstSpelled(RulesNow, TokDash(Tok), CandName(Tok, item))

C28_DynamicRuleSets ==
    [][AtCandidate =>
          /\ (RuleNow = <<>>) <=> EngineErrorStep("UnknownFlag")
          /\ \A k \in 1..Len(NewFlagCalls) : NewFlagCalls[k].rule = RuleNow
          /\ (pc' = "done" /\ result'.tag = "FlagError"
              /\ result'.error.tag \in {"MissingFlagValue", "ValueFlagNotLastInGroup"})
                => (Len(RuleNow) = 4 /\ result'.error.valueDescription = RuleNow[3])
          /\ (pc' = "done" /\ result'.tag = "FlagError"
              /\ result'.error.tag = "UnexpectedFlagValue") => Len(RuleNow) = 3]_vars

\* --abc is a value flag in the initial state; after the positional "v"
\* changed the state it is unknown.
C28_Witness ==
    /\ pc = "done"
    /\ gen = "modal"
    /\ argv = << <<"v">>, <<"-", "-", "a", "b", "c", "=", "v">> >>
    /\ Len(log) = 1
    /\ log[1].cb = "onArg"
    /\ Len(FirstSpelled(flagRulesFromState(gen, 0), "--", <<"a", "b", "c">>)) = 4
    /\ result.tag = "FlagError"
    /\ result.error.tag = "UnknownFlag"
    /\ result.error.name = <<"a", "b", "c">>

----------------------------------------------------------------------------
(* C29. Double-dash tokens are never expanded and single-dash tokens       *)
(* always are: a double-dash token yields one candidate, its whole name,   *)
(* matched only against double-dash rules; a single-dash token with an     *)
(* n-character name yields n one-character candidates matched only against *)
(* single-dash rules.  So "-abc" never invokes a rule named "abc" and      *)
(* "--abc" never invokes the rules of -a, -b, -c.                          *)
C29_Expansion ==
    /\ (pc = "items" /\ index < Len(argv)) =>
          /\ IsFlagToken(Tok)
          /\ Len(items) = (IF TokDash(Tok) = "--" THEN 1 ELSE TokNameLen(Tok))
          /\ \A i \in 1..Len(items) :
                items[i][1] = (IF TokDash(Tok) = "--" THEN TokName(Tok)
                               ELSE <<TokName(Tok)[i]>>)
    /\ \A k \in 1..Len(log) :
          Len(log[k].rule) >= 3 =>
              LET t == argv[log[k].tok + 1]
              IN /\ IsFlagToken(t)
                 /\ log[k].rule[1] = TokDash(t)
                 /\ IF TokDash(t) = "--"
                    THEN /\ log[k].rule[2] = TokName(t)
                         /\ Len(EntriesOf(log, log[k].tok)) = 1
                    ELSE /\ Len(log[k].rule[2]) = 1
                         /\ \E i \in 1..TokNameLen(t) : log[k].rule[2] = <<TokName(t)[i]>>
                         /\ Len(EntriesOf(log, log[k].tok)) <= TokNameLen(t)

\* "--abc=v" invoked the rule of --abc, once, and none of -a, -b, -c, which
\* the rule set also has.
C29_Witness ==
    /\ gen = "loose"
    /\ Len(argv) >= 1
    /\ argv[1] = <<"-", "-", "a", "b", "c", "=", "v">>
    /\ pc = "done"
    /\ Len(log) = 1
    /\ log[1].cb = "cbABC"
    /\ log[1].arg = Some(<<"v">>)
    /\ result = [tag |-> "Ok", state |-> 1]

----------------------------------------------------------------------------
(* C30. Rest handoff after a next-argument value: when a Value rule's      *)
(* callback took its value from the following token (position i+1) and     *)
(* returned Ok with handleRemainingAsRest set, onRest received exactly the *)
(* tokens from position i+2 on; the value token is not part of the rest.   *)
TookNextArg(e) ==
    /\ Len(e.rule) = 4
    /\ e.tok < Len(argv)
    /\ IsFlagToken(argv[e.tok + 1])
    /\ ~HasSuffix(argv[e.tok + 1])

C30_RestAfterNextArgValue ==
    \A k \in 2..Len(log) :
        (log[k].cb = "onRest" /\ Requested(log[k - 1]) /\ TookNextArg(log[k - 1])) =>
            LET i == log[k - 1].tok
            IN /\ i + 2 <= Len(argv)
               /\ log[k - 1].arg = Some(argv[i + 2])
               /\ Len(log[k].arg) = Len(argv) - (i + 2)
               /\ \A j \in 1..Len(log[k].arg) : log[k].arg[j] = argv[i + 2 + j]

\* -c took "v" and handed off: onRest received only the token after "v".
C30_Witness ==
    /\ pc = "done"
    /\ argv = << <<"-", "c">>, <<"v">>, <<"-", "a">> >>
    /\ Len(log) = 2
    /\ log[1].cb = "cbC"
    /\ log[1].arg = Some(<<"v">>)
    /\ log[1].res.rest
    /\ log[2].cb = "onRest"
    /\ log[2].arg = << <<"-", "a">> >>

----------------------------------------------------------------------------
(* C31. Token accounting: in every run that ends without an error, each    *)
(* input token has exactly one role: flag token, positional (passed to     *)
(* onArg, once), value of a Value flag, terminator, or member of the list  *)
(* passed to onRest; the rest list is the input after the last processed   *)
(* token, in order.                                                        *)
AsFlag(p) == \E k \in 1..Len(log) : log[k].tok = p /\ Len(log[k].rule) >= 3
AsPositional(p) == \E k \in 1..Len(log) : log[k].tok = p /\ log[k].cb = "onArg"
AsValue(p) ==
    \E k \in 1..Len(log) :
        /\ log[k].at = p
        /\ log[k].tok = p - 1
        /\ Len(log[k].rule) = 4
        /\ log[k].arg = Some(argv[p + 1])
AsTerminator(p) ==
    \E k \in RestCalls(log) :
        /\ log[k].tok = p
        /\ AtTerminator(log[k])
        /\ ~(k > 1 /\ Requested(log[k - 1]))
InRest(p) ==
    \E k \in RestCalls(log) :
        /\ p > log[k].at
        /\ p - log[k].at <= Len(log[k].arg)
        /\ log[k].arg[p - log[k].at] = argv[p + 1]

Roles(p) ==
    (IF AsFlag(p) THEN 1 ELSE 0) + (IF AsPositional(p) THEN 1 ELSE 0)
    + (IF AsValue(p) THEN 1 ELSE 0) + (IF AsTerminator(p) THEN 1 ELSE 0)
    + (IF InRest(p) THEN 1 ELSE 0)

C31_TokenAccounting ==
    (pc = "done" /\ result.tag = "Ok") =>
        /\ \A p \in 0..(Len(argv) - 1) :
              /\ Roles(p) = 1
              /\ AsFlag(p) => (argv[p + 1] # <<"-", "-">> /\ IsFlagToken(argv[p + 1]))
              /\ AsPositional(p) =>
                    Cardinality({k \in 1..Len(log) : log[k].tok = p /\ log[k].cb = "onArg"}) = 1
        /\ \A k \in RestCalls(log) :
              /\ log[k].arg = After(log[k].at)
              /\ \A p \in 0..log[k].at : ~InRest(p)

\* ["-c", "-a", "v"]: -c is the flag token, "-a" its value, and "v" was
\* delivered to onRest.
C31_Witness ==
    /\ pc = "done"
    /\ result.tag = "Ok"
    /\ argv = << <<"-", "c">>, <<"-", "a">>, <<"v">> >>
    /\ AsFlag(0)
    /\ AsValue(1)
    /\ InRest(2)
    /\ Len(log) = 2

----------------------------------------------------------------------------
(* C32. Termination and cursor bounds: parse returns after finitely many   *)
(* steps; the cursor starts at 0, is larger at the start of every          *)
(* iteration than at the start of the one before, advances by at most 2    *)
(* per token (the extra step only when a Value rule took the next token as *)
(* its value, which exists), and is within 0..length-1 whenever a token is *)
(* read.                                                                   *)
\* This step called a Value rule's callback with the next token.
TookNext ==
    /\ AtCandidate
    /\ ToValue
    /\ IsLastCand
    /\ ~HasSuffix(Tok)
    /\ index + 1 < Len(argv)
    /\ Len(NewFlagCalls) = 1
    /\ NewFlagCalls[1].arg = Some(argv[index + 2])
    /\ NewFlagCalls[1].at = index + 1

CursorStep ==
    /\ index' \in {index, index + 1, index + 2}
    /\ pc' = "scan" => index' > index
    /\ index' = index + 2 => (TookNext /\ pc' = "scan")
    /\ (index' = index + 1 /\ pc' = "done") => TookNext
    /\ (index' = index /\ pc' = "items") => (pc = "scan" \/ item' = item + 1)

C32_TerminationAndCursor ==
    /\ index = 0
    /\ <>(pc = "done")
    /\ [][CursorStep]_vars
    /\ [](/\ 0 <= index
          /\ index <= Len(argv)
          /\ pc = "items" => (index < Len(argv) /\ item \in 1..Len(items))
          /\ \A k \in 1..Len(log) :
                /\ 0 <= log[k].tok
                /\ log[k].tok <= log[k].at
                /\ log[k].at <= log[k].tok + 1
                /\ log[k].at < Len(argv))

\* ["-c", "v"]: the cursor went from 0 to 2 (the value flag took "v") and
\* parse returned at the end of the input.
C32_Witness ==
    /\ pc = "done"
    /\ argv = << <<"-", "c">>, <<"v">> >>
    /\ index = 2
    /\ Len(log) = 1
    /\ log[1].tok = 0
    /\ log[1].at = 1
    /\ result = [tag |-> "Ok", state |-> 1]

----------------------------------------------------------------------------
(* C33. The rest handler is final: whatever handleRemainingAsRest onRest's *)
(* own Ok result carries, parse returns the translation of that result     *)
(* with the cursor where it was, onRest is the last callback invoked and   *)
(* nothing is scanned afterwards; and after a flag or positional callback  *)
(* that returned Ok the scan continues unless handleRemainingAsRest is     *)
(* exactly true: onRest follows in the same step only for true, never for  *)
(* an absent or false field.                                               *)
\* The scan goes on: parse has not returned and moved to the next candidate
\* of the token or to a later token.
ScanContinues ==
    /\ pc' \in {"scan", "items"}
    /\ result' = result
    /\ \/ index' > index
       \/ index' = index /\ pc' = "items" /\ item' = item + 1

RestFinalStep ==
    /\ Len(log') <= Len(log) + 2
    /\ (/\ Len(log') = Len(log) + 1
        /\ LastCallNext.cb # "onRest"
        /\ LastCallNext.res.tag = "Ok") =>
          /\ lastResult'.tag = "Ok"
          /\ lastResult'.handleRemainingAsRest \in {"undefined", "false"}
          /\ ~LastCallNext.res.rest
          /\ ScanContinues
    /\ (/\ Len(log') = Len(log) + 2) =>
          /\ Requested(log'[Len(log) + 1])
          /\ LastCallNext.cb = "onRest"
    /\ (/\ Len(log') > Len(log)
        /\ LastCallNext.cb = "onRest") =>
          /\ pc' = "done"
          /\ LastCallNext.res = Seen(lastResult')
          /\ result' = Translated(lastResult')
          /\ index' = LastCallNext.at
          /\ Len(log') = Len(log) + 1 => (AtToken /\ Tok = <<"-", "-">>)
    /\ Final

C33_RestHandlerFinal ==
    /\ [][RestFinalStep]_vars
    /\ [](\A k \in RestCalls(log) :
             /\ k = Len(log)
             /\ pc = "done"
             /\ index = log[k].at
             /\ lastResult.tag = "Ok" =>
                   result = [tag |-> "Ok", state |-> lastResult.state])

\* ["v", "--", "v"]: onArg returned Ok without a handoff and the scan went
\* on to the terminator; onRest got the last token and returned Ok with
\* handleRemainingAsRest true, and parse returned that Ok with the cursor
\* still on the terminator.
C33_Witness ==
    /\ pc = "done"
    /\ argv = << <<"v">>, <<"-", "-">>, <<"v">> >>
    /\ index = 1
    /\ Len(log) = 2
    /\ log[1].cb = "onArg"
    /\ ~log[1].res.rest
    /\ log[2].cb = "onRest"
    /\ log[2].arg = << <<"v">> >>
    /\ lastResult.tag = "Ok"
    /\ lastResult.handleRemainingAsRest = "true"
    /\ result = [tag |-> "Ok", state |-> 2]

====
